---- MODULE Spec2Model ----
(***************************************************************************)
(* Model of core/container_remove.go of cri-dockerd: the container         *)
(* teardown path (RemoveContainer), the cleanup-info registry guarded by   *)
(* cleanupInfosLock, and the platform-specific cleanup step.               *)
(*                                                                         *)
(* Every goroutine that calls into the dockerService is a process of       *)
(* Procs.  A process is either idle or inside one call; pc[p] is its       *)
(* position in the code, the other per-process variables are the locals    *)
(* of the call.  The collaborators that live outside this file (the log    *)
(* symlink remover, the docker client, the per-platform cleanup) are       *)
(* environment: each of their results is chosen from a small set.          *)
(***************************************************************************)
EXTENDS Naturals, Sequences, FiniteSets, TLC

(***************************************************************************)
(* Bounds of the model.                                                    *)
(***************************************************************************)
NumProcs == 2
MaxCalls == 3

Procs == 1 .. NumProcs
IDs == {"abc", "def"}

(***************************************************************************)
(* Values.                                                                 *)
(***************************************************************************)
\* a nil *containerCleanupInfo
NilInfo == "nil"
\* the non-nil *containerCleanupInfo a creation may register
NonNilInfos == {"m1"}
Infos == {NilInfo} \cup NonNilInfos
\* "no such key" of the Go map
Absent == "absent"
None == 0

\* error values: a message kind, the container named in it, the causes printed
NilErr == [msg |-> "nil", id |-> "", causes |-> << >>]

\* every content the map can have
AnyMap == [IDs -> Infos \cup {Absent}]

\* containerCleanupInfos after make(map...): no key present
EmptyMap == [i \in IDs |-> Absent]

\* info, ok := ds.containerCleanupInfos[containerID]
MapLookup(m, id) == [info |-> IF m[id] = Absent THEN NilInfo ELSE m[id],
                     ok |-> m[id] # Absent]

\* ds.containerCleanupInfos[containerID] = info
MapStore(m, id, info) == [m EXCEPT ![id] = info]

\* delete() that removes nothing
MapDeleteNothing(m, id) == m

\* delete() replaced by a reset of the whole map
MapDeleteAll(m, id) == [i \in IDs |-> Absent]

\* delete(ds.containerCleanupInfos, containerID)
MapDelete(m, id) == [m EXCEPT ![id] = Absent]

\* the options without Force
RemoveOptionsNoForce == [RemoveVolumes |-> TRUE, Force |-> FALSE]

\* types.ContainerRemoveOptions{RemoveVolumes: true, Force: true}
RemoveOptions == [RemoveVolumes |-> TRUE, Force |-> TRUE]

\* fmt.Errorf("failed to run platform-specific clean ups for container %q: %v", id, errors)
CleanupErrorf(id, errs) == [msg |-> "failed to run platform-specific clean ups",
                            id |-> id, causes |-> errs]

\* the message without the container ID
RemoveErrorfNoID(id, e) == [msg |-> "failed to remove container",
                            id |-> "", causes |-> <<e>>]

\* fmt.Errorf("failed to remove container %q: %v", id, err)
RemoveErrorf(id, e) == [msg |-> "failed to remove container",
                        id |-> id, causes |-> <<e>>]

\* the symlink error ignored
SymlinkFailedNever(e) == FALSE

\* if err != nil { return nil, err }, after removeContainerLogSymlink
SymlinkFailed(e) == e # NilErr

\* if err != nil { return nil, fmt.Errorf(...) }, after ds.client.RemoveContainer
BackendFailed(r) == r # "nil"

\* the cleanup errors ignored
CleanupFailedNever(errs) == FALSE

\* if len(errors) != 0 { return nil, fmt.Errorf(...) }
CleanupFailed(errs) == Len(errs) # 0

\* the entry is never cleared
ShouldClearNever(errs) == FALSE

\* the entry cleared whatever the cleanup returned
ShouldClearAlways(errs) == TRUE

\* if len(errors) == 0 { ds.clearContainerCleanupInfo(containerID) }
ShouldClear(errs) == Len(errs) = 0

\* the capability called with nil metadata too
SkipCleanupNever(info) == FALSE

\* if cleanupInfo == nil { return nil }
SkipCleanup(info) == info = NilInfo

(***************************************************************************)
(* Collaborators outside this file.                                        *)
(***************************************************************************)
\* ds.removeContainerLogSymlink(id): nil, or an error naming the container
SymlinkResults(id) ==
    {NilErr, [msg |-> "failed to remove container log symlink",
              id |-> id, causes |-> <<"errSymlink">>]}

\* ds.client.RemoveContainer(id, opts): nil or the client's error
BackendResults == {"nil", "errBackend"}

\* ds.performPlatformSpecificContainerCleanup(info): the errors a platform's
\* cleanup returns; the default platform returns none
PlatformCleanupResults == {<< >>, <<"errA">>, <<"errA", "errB">>}

(***************************************************************************)
(* getContainerTimestamps, lines 79-96.                                    *)
(***************************************************************************)
\* the timestamp strings an inspection record may carry, two of them malformed
TimestampStrings ==
    {"2021-06-01T10:00:00Z", "2021-06-01T12:00:00+02:00", "2021-06-01T10:00:05.5Z",
     "", "not-a-time"}

\* the zero time.Time of "var createdAt, startedAt, finishedAt time.Time"
ZeroTime == [instant |-> "0001-01-01T00:00:00Z"]

\* libdocker.ParseDockerTimestamp(s): the instant a well-formed string names,
\* or the zero time and an error made from the string alone
ParseDockerTimestamp(s) ==
    CASE s \in {"2021-06-01T10:00:00Z", "2021-06-01T12:00:00+02:00"} ->
            [t |-> [instant |-> "2021-06-01T10:00:00Z"], err |-> NilErr]
      [] s = "2021-06-01T10:00:05.5Z" ->
            [t |-> [instant |-> "2021-06-01T10:00:05.5Z"], err |-> NilErr]
      [] OTHER ->
            [t |-> ZeroTime,
             err |-> [msg |-> "cannot parse time", id |-> "", causes |-> <<s>>]]

\* the parse error ignored
ParseFailedNever(e) == FALSE

\* if err != nil { return createdAt, startedAt, finishedAt, err }
ParseFailed(e) == e # NilErr

Fields == {"Created", "StartedAt", "FinishedAt"}

\* the *types.ContainerJSON records: r.Created, r.State.StartedAt, r.State.FinishedAt
Records == [Fields -> TimestampStrings]

\* no call of getContainerTimestamps
TsIdle == [pc |-> "none", r |-> [f \in Fields |-> ""],
           createdAt |-> ZeroTime, startedAt |-> ZeroTime, finishedAt |-> ZeroTime,
           err |-> NilErr]

\* getContainerTimestamps(r) entered: lines 80-81
TsEntered(r) == [TsIdle EXCEPT !.pc = "Created", !.r = r]

VARIABLES
    containerCleanupInfos,  \* ds.containerCleanupInfos
    lockW,                  \* cleanupInfosLock: the writer that called Lock(), or None
    lockR,                  \* cleanupInfosLock: the readers inside RLock()/RUnlock()
    pc,                     \* position of each process
    op,                     \* the call a process is in
    cid,                    \* its containerID argument
    arg,                    \* info argument of setContainerCleanupInfo
    cleanupInfo,            \* local cleanupInfo of performPlatformSpecificContainerForContainer
    present,                \* local present
    errors,                 \* local errors
    err,                    \* local err of RemoveContainer
    ret,                    \* the error the call returns (NilErr: success)
    calls,                  \* the collaborator and registry calls made by the call so far
    backendOpts,            \* the options of each ds.client.RemoveContainer of the call
    removed,                \* containers the backend has removed
    okCount,                \* per ID: zero-error platform cleanups since it was registered
    registered,             \* per ID: the metadata most recently registered, or Absent
    raced,                  \* per ID: two RemoveContainer calls for it were in flight together
    lastFailed,             \* per ID: the metadata of its last failed platform cleanup, if
                            \* no cleanup succeeded and nothing was registered since
    ts,                     \* the call of getContainerTimestamps: input, position, results
    started                 \* number of calls started so far

locals == <<op, cid, arg, cleanupInfo, present, errors, err, ret, calls, backendOpts>>
lock == <<lockW, lockR>>
vars == <<containerCleanupInfos, lockW, lockR, pc, op, cid, arg, cleanupInfo,
          present, errors, err, ret, calls, backendOpts, removed, okCount,
          registered, raced, lastFailed, started, ts>>
history == <<removed, okCount, registered, raced, lastFailed>>
service == <<containerCleanupInfos, lock, pc, locals, history, started>>

TypeOK ==
    /\ containerCleanupInfos \in [IDs -> Infos \cup {Absent}]
    /\ lockW \in Procs \cup {None}
    /\ lockR \subseteq Procs
    /\ op \in [Procs -> {"none", "Remove", "Get", "Set", "Clear"}]
    /\ cid \in [Procs -> IDs \cup {""}]
    /\ arg \in [Procs -> Infos]
    /\ cleanupInfo \in [Procs -> Infos]
    /\ present \in [Procs -> BOOLEAN]
    /\ errors \in [Procs -> PlatformCleanupResults]
    /\ removed \subseteq IDs
    /\ okCount \in [IDs -> Nat]
    /\ registered \in AnyMap
    /\ raced \in [IDs -> BOOLEAN]
    /\ lastFailed \in AnyMap
    /\ started \in 0 .. MaxCalls
    /\ ts.pc \in {"none", "done"} \cup Fields
    /\ ts.r \in Records \cup {TsIdle.r}

InitService(m) ==
    /\ containerCleanupInfos = m
    /\ registered = m
    /\ raced = [i \in IDs |-> FALSE]
    /\ lastFailed = [i \in IDs |-> Absent]
    /\ lockW = None
    /\ lockR = {}
    /\ pc = [p \in Procs |-> "idle"]
    /\ op = [p \in Procs |-> "none"]
    /\ cid = [p \in Procs |-> ""]
    /\ arg = [p \in Procs |-> NilInfo]
    /\ cleanupInfo = [p \in Procs |-> NilInfo]
    /\ present = [p \in Procs |-> FALSE]
    /\ errors = [p \in Procs |-> << >>]
    /\ err = [p \in Procs |-> NilErr]
    /\ ret = [p \in Procs |-> NilErr]
    /\ calls = [p \in Procs |-> << >>]
    /\ backendOpts = [p \in Procs |-> << >>]
    /\ removed = {}
    /\ okCount = [i \in IDs |-> 0]
    /\ started = 0

InitWith(m) == InitService(m) /\ ts = TsIdle

\* the service as NewDockerService leaves it: nothing registered
Init == InitWith(EmptyMap)

\* the service after container creations have registered their metadata
InitRegistered == \E m \in AnyMap : InitWith(m)

(***************************************************************************)
(* cleanupInfosLock, a sync.RWMutex.  Lock() first announces the writer,   *)
(* which keeps new readers out, then waits for the active readers to       *)
(* leave.                                                                  *)
(***************************************************************************)
\* RLock() that does not wait for a writer
CanRLockAlways == TRUE

\* RLock() returns: no writer holds or waits for the lock
CanRLock == lockW = None
\* Lock() passes the writers' mutex: no other writer holds or waits
CanAnnounce == lockW = None
\* Lock() that does not wait for the readers
CanLockDespiteReaders(p) == lockW = p

\* Lock() returns: the active readers have left
CanLock(p) == lockW = p /\ lockR = {}

\* a process inside the read-side critical section (lines 61-64)
InReadCS(p) == pc[p] = "get_cs"
\* a process inside a write-side critical section (lines 68-70, 74-76)
InWriteCS(p) == pc[p] \in {"set_cs", "clear_cs"}

\* A Go map is not safe for concurrent use: a read that overlaps a write, or a
\* write that overlaps any other access, is a data race and may see or leave
\* any content.
ReadRace(p) == \E q \in Procs \ {p} : InWriteCS(q)
WriteRace(p) == \E q \in Procs \ {p} : InWriteCS(q) \/ InReadCS(q)

LookupResults(p, m, id) ==
    IF ReadRace(p)
       THEN [info : Infos, ok : BOOLEAN]
       ELSE {MapLookup(m, id)}

StoreResults(p, m, id, info) ==
    IF WriteRace(p) THEN AnyMap ELSE {MapStore(m, id, info)}

DeleteResults(p, m, id) ==
    IF WriteRace(p) THEN AnyMap ELSE {MapDelete(m, id)}

(***************************************************************************)
(* Entering a call.  The gRPC server runs each request on a goroutine of   *)
(* its own; S is the set of container IDs the caller may pass.             *)
(***************************************************************************)
\* another RemoveContainer for the same container has not returned yet
RemovalInFlight(p, id) ==
    \E q \in Procs \ {p} : op[q] = "Remove" /\ cid[q] = id

Enter(p, o, id, info, at) ==
    /\ pc[p] = "idle"
    /\ started < MaxCalls
    /\ started' = started + 1
    /\ pc' = [pc EXCEPT ![p] = at]
    /\ op' = [op EXCEPT ![p] = o]
    /\ cid' = [cid EXCEPT ![p] = id]
    /\ arg' = [arg EXCEPT ![p] = info]
    /\ raced' = IF o = "Remove" /\ RemovalInFlight(p, id)
                   THEN [raced EXCEPT ![id] = TRUE]
                   ELSE raced
    /\ UNCHANGED <<containerCleanupInfos, lock, cleanupInfo, present, errors, err,
                   ret, calls, backendOpts, removed, okCount, registered,
                   lastFailed, ts>>

CallRemoveContainer(p, S) ==
    \E id \in S : Enter(p, "Remove", id, NilInfo, "rm_symlink")
CallGet(p, S) ==
    \E id \in S : Enter(p, "Get", id, NilInfo, "get_rlock")
CallSet(p, S) ==
    \E id \in S, info \in Infos : Enter(p, "Set", id, info, "set_lock")
CallClear(p, S) ==
    \E id \in S : Enter(p, "Clear", id, NilInfo, "clear_lock")

(***************************************************************************)
(* RemoveContainer, lines 37-40.                                           *)
(***************************************************************************)
RemoveSymlink(p) ==
    /\ pc[p] = "rm_symlink"
    /\ \E e \in SymlinkResults(cid[p]) :
          /\ err' = [err EXCEPT ![p] = e]
          /\ IF SymlinkFailed(e)
                THEN /\ ret' = [ret EXCEPT ![p] = e]
                     /\ pc' = [pc EXCEPT ![p] = "return"]
                ELSE /\ ret' = ret
                     /\ pc' = [pc EXCEPT ![p] = "get_rlock"]
    /\ calls' = [calls EXCEPT ![p] = Append(@, "symlink")]
    /\ UNCHANGED <<containerCleanupInfos, lock, op, cid, arg, cleanupInfo, present,
                   errors, backendOpts, history, started, ts>>

(***************************************************************************)
(* getContainerCleanupInfo, lines 60-65.                                   *)
(***************************************************************************)
GetRLock(p) ==
    /\ pc[p] = "get_rlock"
    /\ CanRLock
    /\ lockR' = lockR \cup {p}
    /\ pc' = [pc EXCEPT ![p] = "get_cs"]
    /\ UNCHANGED <<containerCleanupInfos, lockW, locals, history, started, ts>>

\* performPlatformSpecificContainerForContainer has returned errs (line 137):
\* lines 41-48 of RemoveContainer return the error or go on to line 49
AfterPerform(errs) == IF CleanupFailed(errs) THEN "return" ELSE "rm_backend"

\* the error RemoveContainer returns when it stops at line 43
RetAt(p, at, errs) ==
    IF op[p] = "Remove" /\ at = "return" THEN CleanupErrorf(cid[p], errs) ELSE ret[p]

\* line 129 without the test of present
AfterGetIgnoringOk(p, ok) == IF op[p] = "Get" THEN "return" ELSE "cleanup"

\* what the caller does with (info, ok): line 129, or the return of a bare get
AfterGet(p, ok) ==
    IF op[p] = "Get" THEN "return"
    ELSE IF ok THEN "cleanup" ELSE AfterPerform(errors[p])

\* the read lock kept after the lookup
RUnlockMissing(p) == lockR

\* defer ds.cleanupInfosLock.RUnlock(), line 62
RUnlock(p) == lockR \ {p}

GetReadRUnlock(p) ==
    /\ pc[p] = "get_cs"
    /\ \E r \in LookupResults(p, containerCleanupInfos, cid[p]) :
          /\ cleanupInfo' = [cleanupInfo EXCEPT ![p] = r.info]
          /\ present' = [present EXCEPT ![p] = r.ok]
          /\ pc' = [pc EXCEPT ![p] = AfterGet(p, r.ok)]
          /\ ret' = [ret EXCEPT ![p] = RetAt(p, AfterGet(p, r.ok), errors[p])]
    /\ lockR' = RUnlock(p)
    /\ calls' = [calls EXCEPT ![p] = Append(@, "get")]
    /\ UNCHANGED <<containerCleanupInfos, lockW, op, cid, arg, errors, err,
                   backendOpts, history, started, ts>>

(***************************************************************************)
(* performPlatformSpecificContainerCleanupAndLogErrors, lines 140-154,     *)
(* called at line 130; then the test of line 132.                          *)
(***************************************************************************)
AfterCleanup(errs) == IF ShouldClear(errs) THEN "clear_lock" ELSE AfterPerform(errs)

CleanupAndLogErrors(p) ==
    /\ pc[p] = "cleanup"
    /\ IF SkipCleanup(cleanupInfo[p])
          THEN /\ errors' = [errors EXCEPT ![p] = << >>]
               /\ calls' = calls
               /\ okCount' = okCount
               /\ lastFailed' = lastFailed
               /\ pc' = [pc EXCEPT ![p] = AfterCleanup(<< >>)]
               /\ ret' = [ret EXCEPT ![p] = RetAt(p, AfterCleanup(<< >>), << >>)]
          ELSE \E errs \in PlatformCleanupResults :
               /\ errors' = [errors EXCEPT ![p] = errs]
               /\ calls' = [calls EXCEPT ![p] = Append(@, "cleanup")]
               /\ okCount' = IF Len(errs) = 0
                                THEN [okCount EXCEPT ![cid[p]] = @ + 1]
                                ELSE okCount
               /\ lastFailed' = [lastFailed EXCEPT ![cid[p]] =
                                    IF Len(errs) = 0 THEN Absent ELSE cleanupInfo[p]]
               /\ pc' = [pc EXCEPT ![p] = AfterCleanup(errs)]
               /\ ret' = [ret EXCEPT ![p] = RetAt(p, AfterCleanup(errs), errs)]
    /\ UNCHANGED <<containerCleanupInfos, lock, op, cid, arg, cleanupInfo, present,
                   err, backendOpts, removed, registered, raced, started, ts>>

(***************************************************************************)
(* clearContainerCleanupInfo, lines 73-77.                                 *)
(***************************************************************************)
ClearAnnounce(p) ==
    /\ pc[p] = "clear_lock"
    /\ CanAnnounce
    /\ lockW' = p
    /\ pc' = [pc EXCEPT ![p] = "clear_wait"]
    /\ UNCHANGED <<containerCleanupInfos, lockR, locals, history, started, ts>>

ClearLock(p) ==
    /\ pc[p] = "clear_wait"
    /\ CanLock(p)
    /\ pc' = [pc EXCEPT ![p] = "clear_cs"]
    /\ UNCHANGED <<containerCleanupInfos, lock, locals, history, started, ts>>

\* the call ended right after the clear
AfterClearReturn(p) == "return"

\* back in the caller: line 137 of performPlatformSpecificContainerForContainer,
\* or the return of a bare clear
AfterClear(p) == IF op[p] = "Clear" THEN "return" ELSE AfterPerform(errors[p])

ClearDeleteUnlock(p) ==
    /\ pc[p] = "clear_cs"
    /\ containerCleanupInfos' \in DeleteResults(p, containerCleanupInfos, cid[p])
    /\ lockW' = None
    /\ calls' = [calls EXCEPT ![p] = Append(@, "clear")]
    /\ pc' = [pc EXCEPT ![p] = AfterClear(p)]
    /\ ret' = [ret EXCEPT ![p] = RetAt(p, AfterClear(p), errors[p])]
    /\ UNCHANGED <<lockR, op, cid, arg, cleanupInfo, present, errors, err,
                   backendOpts, history, started, ts>>

(***************************************************************************)
(* setContainerCleanupInfo, lines 67-71.                                   *)
(***************************************************************************)
SetAnnounce(p) ==
    /\ pc[p] = "set_lock"
    /\ CanAnnounce
    /\ lockW' = p
    /\ pc' = [pc EXCEPT ![p] = "set_wait"]
    /\ UNCHANGED <<containerCleanupInfos, lockR, locals, history, started, ts>>

SetLock(p) ==
    /\ pc[p] = "set_wait"
    /\ CanLock(p)
    /\ pc' = [pc EXCEPT ![p] = "set_cs"]
    /\ UNCHANGED <<containerCleanupInfos, lock, locals, history, started, ts>>

SetStoreUnlock(p) ==
    /\ pc[p] = "set_cs"
    /\ containerCleanupInfos' \in StoreResults(p, containerCleanupInfos, cid[p], arg[p])
    /\ lockW' = None
    /\ okCount' = [okCount EXCEPT ![cid[p]] = 0]
    /\ registered' = [registered EXCEPT ![cid[p]] = arg[p]]
    /\ lastFailed' = [lastFailed EXCEPT ![cid[p]] = Absent]
    /\ calls' = [calls EXCEPT ![p] = Append(@, "set")]
    /\ pc' = [pc EXCEPT ![p] = "return"]
    /\ UNCHANGED <<lockR, op, cid, arg, cleanupInfo, present, errors, err, ret,
                   backendOpts, removed, raced, started, ts>>

(***************************************************************************)
(* RemoveContainer, lines 49-57.                                           *)
(***************************************************************************)
RemoveBackend(p) ==
    /\ pc[p] = "rm_backend"
    /\ backendOpts' = [backendOpts EXCEPT ![p] = Append(@, RemoveOptions)]
    /\ calls' = [calls EXCEPT ![p] = Append(@, "backend")]
    /\ \E r \in BackendResults :
          /\ err' = [err EXCEPT ![p] =
                        IF r = "nil" THEN NilErr
                        ELSE [msg |-> r, id |-> "", causes |-> << >>]]
          /\ ret' = [ret EXCEPT ![p] =
                        IF BackendFailed(r) THEN RemoveErrorf(cid[p], r) ELSE NilErr]
          /\ removed' = IF r = "nil" THEN removed \cup {cid[p]} ELSE removed
    /\ pc' = [pc EXCEPT ![p] = "return"]
    /\ UNCHANGED <<containerCleanupInfos, lock, op, cid, arg, cleanupInfo, present,
                   errors, okCount, registered, raced, lastFailed, started, ts>>

(***************************************************************************)
(* The call returns to its caller; its locals are gone.                    *)
(***************************************************************************)
Return(p) ==
    /\ pc[p] = "return"
    /\ pc' = [pc EXCEPT ![p] = "idle"]
    /\ op' = [op EXCEPT ![p] = "none"]
    /\ cid' = [cid EXCEPT ![p] = ""]
    /\ arg' = [arg EXCEPT ![p] = NilInfo]
    /\ cleanupInfo' = [cleanupInfo EXCEPT ![p] = NilInfo]
    /\ present' = [present EXCEPT ![p] = FALSE]
    /\ errors' = [errors EXCEPT ![p] = << >>]
    /\ err' = [err EXCEPT ![p] = NilErr]
    /\ ret' = [ret EXCEPT ![p] = NilErr]
    /\ calls' = [calls EXCEPT ![p] = << >>]
    /\ backendOpts' = [backendOpts EXCEPT ![p] = << >>]
    /\ UNCHANGED <<containerCleanupInfos, lock, history, started, ts>>

(***************************************************************************)
(* Specifications.                                                         *)
(***************************************************************************)
\* the steps inside RemoveContainer
RemoveBody(p) ==
    \/ RemoveSymlink(p)
    \/ GetRLock(p)
    \/ GetReadRUnlock(p)
    \/ CleanupAndLogErrors(p)
    \/ ClearAnnounce(p)
    \/ ClearLock(p)
    \/ ClearDeleteUnlock(p)
    \/ RemoveBackend(p)
    \/ Return(p)

\* the steps inside setContainerCleanupInfo
SetBody(p) ==
    \/ SetAnnounce(p)
    \/ SetLock(p)
    \/ SetStoreUnlock(p)

\* the service at work: removals, and the registrations the creation path
\* makes, on any container, by any process, in any interleaving
Step(p) ==
    \/ CallRemoveContainer(p, IDs)
    \/ CallSet(p, IDs)
    \/ RemoveBody(p)
    \/ SetBody(p)

Next == \E p \in Procs : Step(p)

Spec == Init /\ [][Next]_vars

\* the registry under every use of its three operations, bare or from within
\* RemoveContainer, on any container, by any process, in any interleaving
StepRegistry(p) ==
    \/ CallRemoveContainer(p, IDs)
    \/ CallGet(p, IDs)
    \/ CallSet(p, IDs)
    \/ CallClear(p, IDs)
    \/ RemoveBody(p)
    \/ SetBody(p)

NextRegistry == \E p \in Procs : StepRegistry(p)

SpecRegistry == Init /\ [][NextRegistry]_vars

\* at most one call in flight per container: the IDs no other process is
\* working on.  Calls on different containers still run concurrently.
FreeIDs(p) == {i \in IDs : \A q \in Procs \ {p} : cid[q] # i}

StepOnePerID(p) ==
    \/ CallRemoveContainer(p, FreeIDs(p))
    \/ CallGet(p, FreeIDs(p))
    \/ CallSet(p, FreeIDs(p))
    \/ CallClear(p, FreeIDs(p))
    \/ RemoveBody(p)
    \/ SetBody(p)

NextOnePerID == \E p \in Procs : StepOnePerID(p)

SpecOnePerID == Init /\ [][NextOnePerID]_vars

\* only RemoveContainer calls, in any interleaving, on containers whose
\* metadata was registered (or not) when they were created
NextRemovals == \E p \in Procs : CallRemoveContainer(p, IDs) \/ RemoveBody(p)

SpecRemovals == InitRegistered /\ [][NextRemovals]_vars

\* every process works on container IDs of its own
IDOwner == [i \in IDs |-> IF i = "abc" THEN 1 ELSE 2]
OwnedBy(p) == {i \in IDs : IDOwner[i] = p}

StepDisjoint(p) ==
    \/ CallRemoveContainer(p, OwnedBy(p))
    \/ CallGet(p, OwnedBy(p))
    \/ CallSet(p, OwnedBy(p))
    \/ CallClear(p, OwnedBy(p))
    \/ RemoveBody(p)
    \/ SetBody(p)

NextDisjoint == \E p \in Procs : StepDisjoint(p)

SpecDisjoint == Init /\ [][NextDisjoint]_vars

\* one call in flight per container, registrations and removals only: the
\* caller serialises the creation and the removal attempts of a container
StepLifecycle(p) ==
    \/ CallRemoveContainer(p, FreeIDs(p))
    \/ CallSet(p, FreeIDs(p))
    \/ RemoveBody(p)
    \/ SetBody(p)

NextLifecycle == \E p \in Procs : StepLifecycle(p)

SpecLifecycle == Init /\ [][NextLifecycle]_vars

(***************************************************************************)
(* A caller that re-issues RemoveContainer for its container after each    *)
(* failure, until the removal has succeeded.                               *)
(***************************************************************************)
ReissueRemoveContainer(p) ==
    \E id \in OwnedBy(p) \ removed :
        /\ pc[p] = "idle"
        /\ pc' = [pc EXCEPT ![p] = "rm_symlink"]
        /\ op' = [op EXCEPT ![p] = "Remove"]
        /\ cid' = [cid EXCEPT ![p] = id]
        /\ UNCHANGED <<containerCleanupInfos, lock, arg, cleanupInfo, present, errors,
                       err, ret, calls, backendOpts, history, started, ts>>

StepRetry(p) == ReissueRemoveContainer(p) \/ RemoveBody(p)

NextRetry == \E p \in Procs : StepRetry(p)

\* the collaborator called by p returns without an error
SymlinkSucceeds(p) == RemoveSymlink(p) /\ ~SymlinkFailed(err'[p])
CleanupSucceeds(p) == CleanupAndLogErrors(p) /\ ~CleanupFailed(errors'[p])
BackendSucceeds(p) == RemoveBackend(p) /\ cid[p] \in removed'

\* every process keeps taking its steps, and no collaborator fails for ever:
\* one that is called again and again returns without an error again and again
FairRetry ==
    \A p \in Procs :
        /\ WF_vars(StepRetry(p))
        /\ SF_vars(SymlinkSucceeds(p))
        /\ SF_vars(CleanupSucceeds(p))
        /\ SF_vars(BackendSucceeds(p))

SpecRetry == InitRegistered /\ [][NextRetry]_vars /\ FairRetry

(***************************************************************************)
(* getContainerTimestamps(r), lines 79-96: one action per parse.           *)
(***************************************************************************)
\* createdAt, err = libdocker.ParseDockerTimestamp(r.Created), lines 83-86
ParseCreated ==
    /\ ts.pc = "Created"
    /\ LET res == ParseDockerTimestamp(ts.r["Created"])
       IN ts' = [ts EXCEPT !.createdAt = res.t, !.err = res.err,
                           !.pc = IF ParseFailed(res.err) THEN "done" ELSE "StartedAt"]
    /\ UNCHANGED service

\* startedAt, err = libdocker.ParseDockerTimestamp(r.State.StartedAt), lines 87-90
ParseStartedAt ==
    /\ ts.pc = "StartedAt"
    /\ LET res == ParseDockerTimestamp(ts.r["StartedAt"])
       IN ts' = [ts EXCEPT !.startedAt = res.t, !.err = res.err,
                           !.pc = IF ParseFailed(res.err) THEN "done" ELSE "FinishedAt"]
    /\ UNCHANGED service

\* finishedAt, err = libdocker.ParseDockerTimestamp(r.State.FinishedAt), lines 91-95
ParseFinishedAt ==
    /\ ts.pc = "FinishedAt"
    /\ LET res == ParseDockerTimestamp(ts.r["FinishedAt"])
       IN ts' = [ts EXCEPT !.finishedAt = res.t, !.err = res.err, !.pc = "done"]
    /\ UNCHANGED service

\* getContainerTimestamps is called with any inspection record
InitTimestamps == InitService(EmptyMap) /\ ts \in {TsEntered(r) : r \in Records}

NextTimestamps == ParseCreated \/ ParseStartedAt \/ ParseFinishedAt

SpecTimestamps == InitTimestamps /\ [][NextTimestamps]_vars

(***************************************************************************)
(* Properties.                                                             *)
(***************************************************************************)
Has(seq, x) == \E i \in 1 .. Len(seq) : seq[i] = x
InRemove(p) == op[p] = "Remove"
Returning(p) == pc[p] = "return"

\* the call's removeContainerLogSymlink returned an error
SymlinkErr(p) == InRemove(p) /\ err[p] \in SymlinkResults(cid[p]) \ {NilErr}

\* C1: a RemoveContainer call whose removeContainerLogSymlink fails returns
\* that very error, and has called nothing else: no registry read or write, no
\* platform cleanup, no backend removal.
C1_SymlinkFailureShortCircuits ==
    \A p \in Procs :
        SymlinkErr(p) =>
            /\ Returning(p)
            /\ ret[p] = err[p]
            /\ calls[p] = <<"symlink">>
            /\ backendOpts[p] = << >>

\* a call stopped by a symlink error although metadata is registered for it
C1_Witness ==
    \E p \in Procs :
        /\ SymlinkErr(p)
        /\ Returning(p)
        /\ containerCleanupInfos[cid[p]] \in NonNilInfos

\* C2: a RemoveContainer call whose cleanup step produced errors fails and
\* never calls the backend; a call that calls the backend had zero cleanup
\* errors.
C2_CleanupFailureShortCircuits ==
    \A p \in Procs :
        InRemove(p) =>
            /\ Len(errors[p]) # 0 =>
                  /\ Returning(p)
                  /\ ~Has(calls[p], "backend")
                  /\ backendOpts[p] = << >>
                  /\ ret[p] # NilErr
                  /\ ret[p].causes = errors[p]
            /\ Has(calls[p], "backend") => Len(errors[p]) = 0

\* a call that failed on two cleanup errors
C2_Witness ==
    \E p \in Procs :
        /\ InRemove(p)
        /\ Returning(p)
        /\ errors[p] = <<"errA", "errB">>
        /\ ret[p] # NilErr

\* performPlatformSpecificContainerForContainer has returned to
\* RemoveContainer, which has not called the backend yet
PerformReturned(p) ==
    /\ InRemove(p)
    /\ Has(calls[p], "get")
    /\ pc[p] \in {"rm_backend", "return"}
    /\ ~Has(calls[p], "backend")

\* C3: with at most one call in flight per container, when
\* performPlatformSpecificContainerForContainer has returned for a container
\* whose entry it found: zero cleanup errors, and the entry is gone; one or
\* more errors, and the entry is still there.
C3_ClearedIffNoErrors ==
    \A p \in Procs :
        (PerformReturned(p) /\ present[p]) =>
            /\ Len(errors[p]) = 0 => containerCleanupInfos[cid[p]] = Absent
            /\ Len(errors[p]) # 0 => containerCleanupInfos[cid[p]] = cleanupInfo[p]

\* the platform cleanup failed and the entry is retained
C3_Witness ==
    \E p \in Procs :
        /\ PerformReturned(p)
        /\ present[p]
        /\ Has(calls[p], "cleanup")
        /\ Len(errors[p]) # 0
        /\ containerCleanupInfos[cid[p]] \in NonNilInfos

\* C4 as stated: over any interleaving of RemoveContainer calls the platform
\* cleanup completes with zero errors at most once per registered entry, and
\* exactly once when the removal of an entry with metadata has succeeded.
C4_ConsumedExactlyOnce ==
    \A id \in IDs :
        /\ okCount[id] <= 1
        /\ (id \in removed /\ registered[id] \in NonNilInfos) => okCount[id] = 1

\* C4 as amended: at most once unless two RemoveContainer calls for the ID
\* were in flight together, and at least once before the removal of an entry
\* with metadata succeeds.
C4_ConsumedOnceUnlessRaced ==
    \A id \in IDs :
        /\ ~raced[id] => okCount[id] <= 1
        /\ (id \in removed /\ registered[id] \in NonNilInfos) => okCount[id] >= 1

\* a retried removal that succeeded, its metadata consumed once
C4_Witness ==
    \E id \in IDs :
        /\ id \in removed
        /\ registered[id] \in NonNilInfos
        /\ ~raced[id]
        /\ okCount[id] = 1
        /\ containerCleanupInfos[id] = Absent
        /\ started = MaxCalls

\* C5: a RemoveContainer call that found no entry for its ID has no cleanup
\* errors, never calls the platform cleanup nor clears the registry, and by
\* its return has called only symlink removal, the lookup and backend removal.
C5_AbsentIsNoOp ==
    \A p \in Procs :
        (InRemove(p) /\ Has(calls[p], "get") /\ ~present[p]) =>
            /\ errors[p] = << >>
            /\ pc[p] \in {"rm_backend", "return"}
            /\ ~Has(calls[p], "cleanup")
            /\ ~Has(calls[p], "clear")
            /\ Returning(p) => calls[p] = <<"symlink", "get", "backend">>

\* a removal of an unregistered container that succeeded
C5_Witness ==
    \E p \in Procs :
        /\ InRemove(p)
        /\ Returning(p)
        /\ ~present[p]
        /\ calls[p] = <<"symlink", "get", "backend">>
        /\ ret[p] = NilErr

\* C6: with at most one call in flight per container, a RemoveContainer whose symlink
\* removal succeeded, whose cleanup of the registered metadata returned no
\* errors and whose backend removal succeeded returns success; the registry
\* has no entry for the ID and the backend was called once, with
\* RemoveVolumes and Force set.
C6_FullSuccess ==
    \A p \in Procs :
        (/\ InRemove(p)
         /\ Returning(p)
         /\ present[p]
         /\ Len(errors[p]) = 0
         /\ Has(calls[p], "backend")
         /\ err[p] = NilErr) =>
            /\ ret[p] = NilErr
            /\ containerCleanupInfos[cid[p]] = Absent
            /\ backendOpts[p] = <<[RemoveVolumes |-> TRUE, Force |-> TRUE]>>
            /\ cid[p] \in removed

\* the "abc" scenario: metadata registered, cleanup clean, removal succeeds
C6_Witness ==
    \E p \in Procs :
        /\ InRemove(p)
        /\ Returning(p)
        /\ cid[p] = "abc"
        /\ present[p]
        /\ cleanupInfo[p] \in NonNilInfos
        /\ calls[p] = <<"symlink", "get", "cleanup", "clear", "backend">>
        /\ ret[p] = NilErr

ClearStep(p) == pc[p] = "clear_cs" /\ pc'[p] # "clear_cs"

\* C8: clearContainerCleanupInfo leaves the ID absent and every other entry
\* as it was; a second clear of the result changes nothing; clearing an absent
\* ID changes nothing; and a bare clear returns without an error.
C8_ClearIdempotent ==
    [][\A p \in Procs :
          ClearStep(p) =>
              /\ containerCleanupInfos'[cid[p]] = Absent
              /\ \A j \in IDs \ {cid[p]} :
                    containerCleanupInfos'[j] = containerCleanupInfos[j]
              /\ MapDelete(containerCleanupInfos', cid[p]) = containerCleanupInfos'
              /\ containerCleanupInfos[cid[p]] = Absent =>
                    containerCleanupInfos' = containerCleanupInfos
              /\ op[p] = "Clear" => (pc'[p] = "return" /\ ret'[p] = NilErr)]_vars

\* two clears of the same ID have both completed, another entry is registered
C8_Witness ==
    \E p, q \in Procs :
        /\ p # q
        /\ op[p] = "Clear" /\ Returning(p)
        /\ op[q] = "Clear" /\ Returning(q)
        /\ cid[p] = cid[q]
        /\ containerCleanupInfos[cid[p]] = Absent
        /\ \E j \in IDs \ {cid[p]} : containerCleanupInfos[j] \in NonNilInfos

\* C9: at most one process is inside a write critical section, and none is
\* inside the read critical section while one is.
C9_WritersExclusive ==
    LET writers == {p \in Procs : InWriteCS(p)}
        readers == {p \in Procs : InReadCS(p)}
    IN  /\ Cardinality(writers) <= 1
        /\ writers # {} => readers = {}
        /\ writers # {} => writers = {lockW}
        /\ readers = lockR

\* two readers inside getContainerCleanupInfo at the same time
C9_Witness ==
    \E p, q \in Procs : p # q /\ InReadCS(p) /\ InReadCS(q)

\* the registry content of id after the step, as p's own code alone makes it
OwnEffect(p, id) ==
    IF pc[p] = "set_cs" /\ pc'[p] # "set_cs" /\ cid[p] = id THEN arg[p]
    ELSE IF ClearStep(p) /\ cid[p] = id THEN Absent
    ELSE containerCleanupInfos[id]

\* C10: when every process works on IDs of its own, each step leaves an
\* entry as its owner's own code makes it (the value it sets, absent after
\* its clear, unchanged by anything else, other processes' steps included),
\* and the owner's lookup returns that entry.
C10_DisjointIDsIndependent ==
    [][\A p \in Procs : \A id \in OwnedBy(p) :
          /\ containerCleanupInfos'[id] = OwnEffect(p, id)
          /\ (pc[p] = "get_cs" /\ pc'[p] # "get_cs" /\ cid[p] = id) =>
                /\ present'[p] = (containerCleanupInfos[id] # Absent)
                /\ present'[p] => cleanupInfo'[p] = containerCleanupInfos[id]]_vars

\* a process has cleared its own entry and the other process's entry stands
C10_Witness ==
    \E p \in Procs :
        /\ Returning(p)
        /\ Has(calls[p], "clear")
        /\ cid[p] \in OwnedBy(p)
        /\ registered[cid[p]] \in NonNilInfos
        /\ containerCleanupInfos[cid[p]] = Absent
        /\ \E j \in IDs \ OwnedBy(p) : containerCleanupInfos[j] \in NonNilInfos


(***************************************************************************)
(* getContainerTimestamps.                                                 *)
(***************************************************************************)
FieldOrder == <<"Created", "StartedAt", "FinishedAt">>
TsResult(f) ==
    CASE f = "Created" -> ts.createdAt
      [] f = "StartedAt" -> ts.startedAt
      [] f = "FinishedAt" -> ts.finishedAt
TsReturned == ts.pc = "done"
\* the positions, in parse order, of the fields of the record that are malformed
Malformed == {i \in 1 .. 3 : ParseDockerTimestamp(ts.r[FieldOrder[i]]).err # NilErr}
FirstMalformed == CHOOSE k \in Malformed : \A j \in Malformed : k <= j

\* C11 as stated: the fields are parsed in the order Created, StartedAt,
\* FinishedAt up to the first failure, and a failed extraction returns an
\* error that identifies which field failed to parse: no other field of the
\* record could have produced it.
C11_ErrorIdentifiesField ==
    (TsReturned /\ Malformed # {}) =>
        \A j \in (1 .. 3) \ {FirstMalformed} :
            ParseDockerTimestamp(ts.r[FieldOrder[j]]).err # ts.err

\* C11, amended: the fields are parsed in the order Created, StartedAt,
\* FinishedAt and parsing stops at the first failure. The extraction returns
\* the parser's error for the first malformed field as it is, the fields before
\* it parsed and that field and the later ones as the zero time; with no
\* malformed field it returns the three parsed times and no error.
C11_StopsAtFirstFailure ==
    TsReturned =>
        IF Malformed = {}
        THEN /\ ts.err = NilErr
             /\ \A f \in Fields : TsResult(f) = ParseDockerTimestamp(ts.r[f]).t
        ELSE /\ ts.err = ParseDockerTimestamp(ts.r[FieldOrder[FirstMalformed]]).err
             /\ ts.err # NilErr
             /\ \A i \in 1 .. 3 :
                   TsResult(FieldOrder[i]) =
                       IF i < FirstMalformed
                       THEN ParseDockerTimestamp(ts.r[FieldOrder[i]]).t
                       ELSE ZeroTime

\* a malformed Created before two well-formed fields that were never parsed
C11_Witness ==
    /\ TsReturned
    /\ Malformed = {1}
    /\ ts.err # NilErr
    /\ ts.startedAt = ZeroTime
    /\ ts.finishedAt = ZeroTime

(***************************************************************************)
(* The registry over the life of a container.                              *)
(***************************************************************************)
\* a RemoveContainer call for id is between its cleanup step and its clear
ClearPending(id) ==
    \E p \in Procs :
        /\ InRemove(p)
        /\ cid[p] = id
        /\ pc[p] \in {"clear_lock", "clear_wait", "clear_cs"}

C13_NoEntryAtBackendRemoval ==
    \A p \in Procs :
        InRemove(p) =>
            /\ (pc[p] = "rm_backend" \/ Has(calls[p], "backend")) =>
                   containerCleanupInfos[cid[p]] = Absent
            /\ (Returning(p) /\ ret[p] = NilErr) =>
                   containerCleanupInfos[cid[p]] = Absent

\* a call that cleaned up and cleared its entry returns success
C13_Witness ==
    \E p \in Procs :
        /\ InRemove(p)
        /\ Returning(p)
        /\ ret[p] = NilErr
        /\ registered[cid[p]] \in NonNilInfos
        /\ calls[p] = <<"symlink", "get", "cleanup", "clear", "backend">>
        /\ containerCleanupInfos[cid[p]] = Absent

(***************************************************************************)
(* The lock and the collaborators' I/O.                                    *)
(***************************************************************************)
\* p is about to call, or is inside, symlink removal (line 37), the platform
\* cleanup with its logging (line 130) or the backend removal (line 49)
InIO(p) == pc[p] \in {"rm_symlink", "cleanup", "rm_backend"}
HoldsLock(p) == p \in lockR \/ lockW = p
OutsideLock(p) ==
    pc[p] \in {"idle", "return", "rm_symlink", "cleanup", "rm_backend",
               "get_rlock", "clear_lock", "set_lock"}

\* C14: a process in symlink removal, platform cleanup or backend removal
\* holds neither the read nor the write lock, so when all the other processes
\* are in I/O or outside the registry operations, nothing keeps a process from
\* taking the lock for its get, set or clear.
C14_NoLockAcrossIO ==
    \A p \in Procs :
        /\ InIO(p) => ~HoldsLock(p)
        /\ (\A q \in Procs \ {p} : OutsideLock(q)) =>
               /\ lockW \in {None, p}
               /\ lockR \subseteq {p}

\* a process writes the registry while another is inside the platform cleanup
C14_Witness ==
    \E p, q \in Procs :
        /\ InRemove(p)
        /\ pc[p] = "cleanup"
        /\ pc[q] \in {"set_cs", "clear_cs"}
        /\ lockW = q

(***************************************************************************)
(* Two RemoveContainer calls for one container.                            *)
(***************************************************************************)
\* p and q, both RemoveContainer calls for one ID, have both found the entry
\* present and have both completed the platform cleanup with zero errors
BothCleaned(p, q) ==
    /\ p # q
    /\ InRemove(p) /\ InRemove(q)
    /\ cid[p] = cid[q]
    /\ present[p] /\ present[q]
    /\ Has(calls[p], "cleanup") /\ Has(calls[q], "cleanup")
    /\ errors[p] = << >> /\ errors[q] = << >>

\* C15: two RemoveContainer calls for one ID are not kept apart: both can
\* find the entry present and both can complete the platform cleanup; then
\* each goes on to its clear and to the backend removal, the platform cleanup
\* has completed twice for the ID, and the clear of the call that comes
\* second finds no entry and changes nothing.
C15_SecondClearIsNoOp ==
    [][\A p, q \in Procs :
          BothCleaned(p, q) =>
              /\ okCount[cid[p]] >= 2
              /\ raced[cid[p]]
              /\ pc[p] \in {"clear_lock", "clear_wait", "clear_cs", "rm_backend", "return"}
              /\ (ClearStep(p) /\ Has(calls[q], "clear")) =>
                     /\ containerCleanupInfos[cid[p]] = Absent
                     /\ containerCleanupInfos' = containerCleanupInfos
                     /\ pc'[p] = "rm_backend"
                     /\ UNCHANGED <<ret, errors, err>>]_vars

\* both calls found the entry, both cleaned up, both cleared
C15_Witness ==
    \E p, q \in Procs :
        /\ BothCleaned(p, q)
        /\ Has(calls[p], "clear")
        /\ Has(calls[q], "clear")
        /\ containerCleanupInfos[cid[p]] = Absent
        /\ pc[p] = "rm_backend"
        /\ pc[q] = "rm_backend"

(***************************************************************************)
(* Retries.                                                                *)
(***************************************************************************)
\* C16: when the calls for one ID do not overlap, a platform cleanup that
\* returned errors leaves the entry as it was: the registry maps the ID to
\* the metadata the failed call was given, until a registration or a
\* successful cleanup, and the next RemoveContainer call for the ID finds the
\* entry and passes that same metadata to the platform cleanup.
C16_FailedCleanupKeepsEntry ==
    /\ \A id \in IDs :
          lastFailed[id] # Absent =>
              /\ containerCleanupInfos[id] = lastFailed[id]
              /\ registered[id] = lastFailed[id]
    /\ \A p \in Procs :
          InRemove(p) =>
              /\ Len(errors[p]) # 0 =>
                     /\ lastFailed[cid[p]] = cleanupInfo[p]
                     /\ containerCleanupInfos[cid[p]] = cleanupInfo[p]
              /\ (lastFailed[cid[p]] # Absent /\ Has(calls[p], "get")) =>
                     /\ present[p]
                     /\ cleanupInfo[p] = lastFailed[cid[p]]
                     /\ ~SkipCleanup(cleanupInfo[p])
                     /\ pc[p] = "cleanup" \/ Has(calls[p], "cleanup")

\* a retry, after a failed cleanup, about to pass the same metadata
C16_Witness ==
    \E p \in Procs :
        /\ InRemove(p)
        /\ pc[p] = "cleanup"
        /\ lastFailed[cid[p]] \in NonNilInfos
        /\ present[p]
        /\ cleanupInfo[p] = lastFailed[cid[p]]

\* C17: a RemoveContainer call that found an entry with nil metadata has no
\* cleanup errors and never invokes the platform cleanup capability; it goes
\* on to clear the entry and then to the backend removal.
C17_NilMetadataIsNoOp ==
    \A p \in Procs :
        (InRemove(p) /\ present[p] /\ cleanupInfo[p] = NilInfo /\ pc[p] # "cleanup") =>
            /\ errors[p] = << >>
            /\ ~Has(calls[p], "cleanup")
            /\ pc[p] \in {"clear_lock", "clear_wait", "clear_cs", "rm_backend", "return"}
            /\ pc[p] \in {"rm_backend", "return"} => Has(calls[p], "clear")
            /\ Returning(p) => calls[p] = <<"symlink", "get", "clear", "backend">>

\* an entry with nil metadata cleared and the container removed
C17_Witness ==
    \E p \in Procs :
        /\ InRemove(p)
        /\ Returning(p)
        /\ present[p]
        /\ cleanupInfo[p] = NilInfo
        /\ calls[p] = <<"symlink", "get", "clear", "backend">>
        /\ ret[p] = NilErr
        /\ containerCleanupInfos[cid[p]] = Absent

(***************************************************************************)
(* A registration during a removal.                                        *)
(***************************************************************************)
\* C18 as stated: under any interleaving of setContainerCleanupInfo with
\* RemoveContainer calls, a clear deletes only metadata that its call read and
\* cleaned up (or nil): registered non-nil metadata is missing from the
\* registry only after the platform cleanup has returned zero errors for it.
C18_ClearsOnlyCleanedMetadata ==
    \A id \in IDs :
        (registered[id] \in NonNilInfos /\ containerCleanupInfos[id] = Absent) =>
            okCount[id] >= 1

\* C19: with removals only and no two calls for the ID in flight together,
\* once the platform cleanup has succeeded for an ID its entry is cleared by
\* the time the call reaches the backend removal, whether that then fails or
\* not; every later RemoveContainer call for the ID finds no entry, runs the
\* symlink removal and the backend removal again and never invokes the
\* platform cleanup, which has thus succeeded exactly once.
C19_RetryNeverCleansAgain ==
    \A p \in Procs :
        (InRemove(p) /\ ~raced[cid[p]] /\ okCount[cid[p]] >= 1) =>
            /\ okCount[cid[p]] = 1
            /\ IF Has(calls[p], "cleanup")
               THEN \/ pc[p] \in {"clear_lock", "clear_wait", "clear_cs"}
                    \/ containerCleanupInfos[cid[p]] = Absent
               ELSE /\ containerCleanupInfos[cid[p]] = Absent
                    /\ Has(calls[p], "get") => ~present[p]
                    /\ Returning(p) =>
                           calls[p] \in {<<"symlink">>, <<"symlink", "get", "backend">>}

\* a retry after a cleanup that succeeded and a backend removal that failed:
\* symlink removal and backend removal run again, the cleanup does not
C19_Witness ==
    \E p \in Procs :
        /\ InRemove(p)
        /\ Returning(p)
        /\ ~raced[cid[p]]
        /\ okCount[cid[p]] = 1
        /\ cid[p] \notin removed
        /\ calls[p] = <<"symlink", "get", "backend">>
        /\ containerCleanupInfos[cid[p]] = Absent

(***************************************************************************)
(* Progress of the removal.                                                *)
(***************************************************************************)
Count(seq, x) == Cardinality({i \in 1 .. Len(seq) : seq[i] = x})
Removed(id) == id \in removed /\ containerCleanupInfos[id] = Absent

\* C20: when the caller re-issues RemoveContainer after each failure and no
\* collaborator fails for ever, every container is eventually removed from the
\* backend with no entry in the registry, and stays so; every call returns,
\* having called the symlink removal, the platform cleanup and the backend
\* removal at most once each.
C20_EventuallyRemoved ==
    /\ \A id \in IDs : <>[]Removed(id)
    /\ \A p \in Procs : (pc[p] # "idle") ~> (pc[p] = "idle")
    /\ [](\A p \in Procs :
             /\ Count(calls[p], "symlink") <= 1
             /\ Count(calls[p], "cleanup") <= 1
             /\ Count(calls[p], "backend") <= 1)

\* a retry succeeds after an earlier call had cleaned up and then failed at
\* the backend removal
C20_Witness ==
    \E p \in Procs :
        /\ InRemove(p)
        /\ Returning(p)
        /\ ret[p] = NilErr
        /\ calls[p] = <<"symlink", "get", "backend">>
        /\ okCount[cid[p]] = 1
        /\ Removed(cid[p])

====
